---------------------------- MODULE Spec2Model ----------------------------
(***************************************************************************)
(* A model of the Perplexity Go client (package perplexity):               *)
(* Client.ChatCompletion and Client.handleStreamingResponse, with the      *)
(* request validation, ChatCompletionRequest.MarshalJSON, the HTTP         *)
(* exchange, the status / content-type classification, the single-document *)
(* decode and the line-by-line event-stream loop.                          *)
(*                                                                         *)
(* Text is modelled as it is on the wire: a string is a sequence of        *)
(* one-character strings, a response body is its byte sequence, and the    *)
(* line splitting (bufio.Scanner with ScanLines) and the JSON decoding     *)
(* (encoding/json.Unmarshal, for the subset of documents the bodies use)   *)
(* are computed from those bytes.                                          *)
(***************************************************************************)
EXTENDS Integers, Sequences, FiniteSets, TLC

(***************************************************************************)
(* Bounds of the model.                                                    *)
(***************************************************************************)
\* The longest message sequence of a request.
MaxMsgs == 1
\* The most lines a response body holds.
MaxLines == 2

\* The ChatCompletion calls the model keeps state for.
Calls == {"A", "B"}

(***************************************************************************)
(* Bytes and text.                                                         *)
(***************************************************************************)
\* bufio.MaxScanTokenSize, the token limit of the scanner bufio.NewScanner
\* returns: 64 * 1024.
MaxScanTokenSize == 65536

\* One element of a byte sequence that stands for a run of MaxScanTokenSize
\* spaces (the only way a line of the model exceeds the scanner's limit).
PAD == "<64KiB of spaces>"

NL == "\n"
CR == "\r"
QUOTE == "\""

\* len(s) in bytes.
ByteLen(s) ==
    Len(s) + (MaxScanTokenSize - 1) * Cardinality({i \in 1..Len(s) : s[i] = PAD})

\* strings.HasPrefix(s, p), and s[:len(p)] == p after a length check.
HasPrefix(s, p) ==
    /\ Len(s) >= Len(p)
    /\ SubSeq(s, 1, Len(p)) = p

\* s[i:], 0-based i as in Go.
From(s, i) == SubSeq(s, i + 1, Len(s))

DataPrefix == <<"d", "a", "t", "a", ":", " ">>
DoneSentinel == DataPrefix \o <<"[", "D", "O", "N", "E", "]">>

(***************************************************************************)
(* encoding/json, for documents built of objects, strings without escapes, *)
(* digits and null.  A parsed value is [t, s, m]: its type, its text (a    *)
(* string or a number) and its members (an object).                        *)
(***************************************************************************)
IsWs(ch) == ch \in {" ", "\t", CR, NL, PAD}

IsDigit(ch) == ch \in {"0", "1", "2", "3", "4", "5", "6", "7", "8", "9"}

RECURSIVE SkipWs(_, _)
SkipWs(s, i) ==
    IF i <= Len(s) /\ IsWs(s[i]) THEN SkipWs(s, i + 1) ELSE i

\* The index of the quote closing a string whose text starts at i; 0 when the
\* string is not closed or holds a control character.
RECURSIVE StrEnd(_, _)
StrEnd(s, i) ==
    IF i > Len(s) THEN 0
    ELSE IF s[i] = QUOTE THEN i
    ELSE IF s[i] \in {NL, CR, "\t"} THEN 0
    ELSE StrEnd(s, i + 1)

RECURSIVE NumEnd(_, _)
NumEnd(s, i) ==
    IF i <= Len(s) /\ IsDigit(s[i]) THEN NumEnd(s, i + 1) ELSE i

JVal(t, s, m) == [t |-> t, s |-> s, m |-> m]

ParseFail == [ok |-> FALSE, nxt |-> 0, v |-> JVal("null", <<>>, <<>>)]

ParseOk(nxt, v) == [ok |-> TRUE, nxt |-> nxt, v |-> v]

\* The value that starts at s[i]: [ok, nxt, v], nxt the index after it.
RECURSIVE ParseValue(_, _), ParseMembers(_, _, _)
ParseValue(s, i) ==
    IF i > Len(s) THEN ParseFail
    ELSE IF s[i] = QUOTE THEN
        LET j == StrEnd(s, i + 1)
        IN  IF j = 0 THEN ParseFail
            ELSE ParseOk(j + 1, JVal("str", SubSeq(s, i + 1, j - 1), <<>>))
    ELSE IF IsDigit(s[i]) THEN
        LET j == NumEnd(s, i)
        IN  ParseOk(j, JVal("num", SubSeq(s, i, j - 1), <<>>))
    ELSE IF HasPrefix(From(s, i - 1), <<"n", "u", "l", "l">>) THEN
        ParseOk(i + 4, JVal("null", <<>>, <<>>))
    ELSE IF s[i] = "{" THEN
        LET j == SkipWs(s, i + 1)
        IN  IF j <= Len(s) /\ s[j] = "}"
            THEN ParseOk(j + 1, JVal("obj", <<>>, <<>>))
            ELSE ParseMembers(s, j, <<>>)
    ELSE ParseFail

\* The members of an object from the key that starts at s[i] on.
ParseMembers(s, i, acc) ==
    IF i > Len(s) \/ s[i] # QUOTE THEN ParseFail
    ELSE LET j == StrEnd(s, i + 1)
         IN  IF j = 0 THEN ParseFail
             ELSE LET c == SkipWs(s, j + 1)
                  IN  IF c > Len(s) \/ s[c] # ":" THEN ParseFail
                      ELSE LET pv == ParseValue(s, SkipWs(s, c + 1))
                           IN  IF ~pv.ok THEN ParseFail
                               ELSE LET a == SkipWs(s, pv.nxt)
                                        acc2 == Append(acc, [k |-> SubSeq(s, i + 1, j - 1),
                                                             v |-> pv.v])
                                    IN  IF a > Len(s) THEN ParseFail
                                        ELSE IF s[a] = "}"
                                            THEN ParseOk(a + 1, JVal("obj", <<>>, acc2))
                                        ELSE IF s[a] = ","
                                            THEN ParseMembers(s, SkipWs(s, a + 1), acc2)
                                        ELSE ParseFail

\* The string field `key` of a struct after the members m were decoded into
\* it, starting from cur: a string member sets it, a null member leaves it,
\* a later member with the same key overrides an earlier one.
RECURSIVE FieldValue(_, _, _)
FieldValue(m, key, cur) ==
    IF m = <<>> THEN cur
    ELSE LET h == Head(m)
         IN  FieldValue(Tail(m), key,
                        IF h.k = key /\ h.v.t = "str" THEN h.v.s ELSE cur)

\* Whether a member with this key holds a value a string field cannot take.
FieldMismatch(m, key) ==
    \E i \in 1..Len(m) : m[i].k = key /\ m[i].v.t \notin {"str", "null"}

\* json.Unmarshal(data, &x) for a struct x whose only modelled field is the
\* string tagged `key`: [err, val], err "" on success, "syntax" for a
\* document that is not one well-formed value, "type" for a value the struct
\* or the field cannot take.
Unmarshal(data, key) ==
    LET pv == ParseValue(data, SkipWs(data, 1))
    IN  IF ~pv.ok \/ SkipWs(data, pv.nxt) <= Len(data)
            THEN [err |-> "syntax", val |-> <<>>]
        ELSE IF pv.v.t = "null" THEN [err |-> "", val |-> <<>>]
        ELSE IF pv.v.t # "obj" THEN [err |-> "type", val |-> <<>>]
        ELSE [err |-> IF FieldMismatch(pv.v.m, key) THEN "type" ELSE "",
              val |-> FieldValue(pv.v.m, key, <<>>)]

\* The JSON keys of the two decoded structs.
IdKey == <<"i", "d">>
ErrorKey == <<"e", "r", "r", "o", "r">>


(***************************************************************************)
(* bufio.Scanner over res.Body with the default split function ScanLines.  *)
(* The scanner is [start, err]: the bytes before start were returned as    *)
(* tokens, err is the end of input it has seen ("" none yet, "EOF", "read" *)
(* a failed Read, "toolong" bufio.ErrTooLong).  A body is [bytes, fail]:   *)
(* its bytes, and whether the Read after the last byte fails (connection   *)
(* lost, context cancelled) instead of returning io.EOF.  got is the       *)
(* number of bytes already read from the body into the buffer.             *)
(***************************************************************************)
\* The index of the first newline after position from, 0 when there is none.
RECURSIVE NextNL(_, _)
NextNL(bytes, from) ==
    IF from >= Len(bytes) THEN 0
    ELSE IF bytes[from + 1] = NL THEN from + 1
    ELSE NextNL(bytes, from + 1)

\* bufio's dropCR.
DropCR(data) ==
    IF Len(data) > 0 /\ data[Len(data)] = CR
        THEN SubSeq(data, 1, Len(data) - 1)
        ELSE data

\* The index at which the buffer is full when the bytes from start on hold
\* no newline within MaxScanTokenSize bytes.
RECURSIVE FullAt(_, _, _)
FullAt(bytes, start, e) ==
    IF e >= Len(bytes) \/ ByteLen(SubSeq(bytes, start + 1, e)) >= MaxScanTokenSize
        THEN e
        ELSE FullAt(bytes, start, e + 1)

\* One call of scanner.Scan(): [ok, token, start, err, got] after it.  A
\* line that is complete in the buffer is returned without a Read; otherwise
\* the scanner reads until the line's newline or the end of input arrives or
\* the buffer is full.  The Read that completes the line returns either
\* exactly the line (ahead = FALSE) or all that is left of the body (ahead =
\* TRUE, when that fits the buffer).
ScanStep(body, start, err, got, ahead) ==
    LET bytes == body.bytes
        n == Len(bytes)
        p == NextNL(bytes, start)
        rest == SubSeq(bytes, start + 1, n)
        R(ok, token, st, er, g) ==
            [ok |-> ok, token |-> token, start |-> st, err |-> er, got |-> g]
    IN  IF p # 0 /\ p <= got
            THEN R(TRUE, DropCR(SubSeq(bytes, start + 1, p - 1)), p, err, got)
        ELSE IF err # ""
            THEN IF start < n
                    THEN R(TRUE, DropCR(rest), n, err, got)
                    ELSE R(FALSE, <<>>, start, err, got)
        ELSE IF p # 0
            THEN IF ByteLen(SubSeq(bytes, start + 1, p - 1)) >= MaxScanTokenSize
                    THEN R(FALSE, <<>>, start, "toolong", FullAt(bytes, start, got))
                    ELSE R(TRUE, DropCR(SubSeq(bytes, start + 1, p - 1)), p, err,
                           IF ahead /\ ByteLen(rest) <= MaxScanTokenSize THEN n ELSE p)
        ELSE IF ByteLen(rest) >= MaxScanTokenSize
            THEN R(FALSE, <<>>, start, "toolong", FullAt(bytes, start, got))
        ELSE LET er == IF body.fail THEN "read" ELSE "EOF"
             IN  IF start < n
                    THEN R(TRUE, DropCR(rest), n, er, n)
                    ELSE R(FALSE, <<>>, start, er, n)

\* scanner.Err(): io.EOF is not an error.
ScannerErr(err) == IF err = "EOF" THEN "" ELSE err

(***************************************************************************)
(* Values of the program.                                                  *)
(***************************************************************************)
MessageRoleUser == "user"
MessageRoleAssistant == "assistant"

DefaultBaseURL == "https://api.perplexity.ai"

\* error values: the message (a format), the text and the status it is
\* formatted with, and the cause it wraps.
Err(msg, text, status, cause) ==
    [msg |-> msg, text |-> text, status |-> status, cause |-> cause]

NilErr == Err("", <<>>, 0, "")

\* *ChatCompletionResponse, and the ChatCompletionResponse a callback gets.
NilResp == [nil |-> TRUE, ID |-> <<>>]

Response(id) == [nil |-> FALSE, ID |-> id]

NoBody == [bytes |-> <<>>, fail |-> FALSE]

NoRes == [present |-> FALSE, StatusCode |-> 0, ContentType |-> <<>>, Body |-> NoBody]

NoReq == [Method |-> "", URL |-> <<>>, Authorization |-> <<>>, ContentType |-> ""]

(***************************************************************************)
(* ChatCompletionRequest: the fields the call reads.  A float is "0", "1"  *)
(* or "NaN"; Stream is "nil" or the name of the caller's callback.         *)
(***************************************************************************)
Floats == {"0", "1", "NaN"}

Roles == {MessageRoleUser, MessageRoleAssistant}

SeqsUpTo(S, n) == UNION {[1..k -> S] : k \in 0..n}

Requests ==
    [Model : {"", "sonar"},
     Messages : SeqsUpTo([Role : Roles], MaxMsgs),
     PresencePenalty : Floats,
     FrequencyPenalty : Floats,
     Stream : {"nil", "onUpdate"}]

\* ValidationError without the test of the two penalties.
ValidationError_NoPenaltyTest(r) ==
    IF r.Model = "" THEN "model is required"
    ELSE IF Len(r.Messages) = 0 THEN "at least one message is required"
    ELSE IF r.Messages[Len(r.Messages)].Role # MessageRoleUser
        THEN "the last message must be from the user"
    ELSE ""

\* The first validation rule the request breaks, in the order the code
\* tests them; "" when it breaks none.
ValidationError(r) ==
    IF r.Model = "" THEN "model is required"
    ELSE IF Len(r.Messages) = 0 THEN "at least one message is required"
    ELSE IF r.Messages[Len(r.Messages)].Role # MessageRoleUser
        THEN "the last message must be from the user"
    ELSE IF r.PresencePenalty # "0" /\ r.FrequencyPenalty # "0"
        THEN "PresencePenalty and FrequencyPenalty are incompatible; only one should be set"
    ELSE ""

\* StreamFlag that always asks for a stream.
StreamFlag_Always(r) == TRUE

\* The value MarshalJSON gives the wire key "stream".
StreamFlag(r) == r.Stream # "nil"

\* The keys of the wire object: a field tagged omitempty is left out when it
\* is zero, the callback (tagged "-") is never a key.
WireKeys(r) ==
    {"model", "messages"}
        \cup (IF r.PresencePenalty # "0" THEN {"presence_penalty"} ELSE {})
        \cup (IF r.FrequencyPenalty # "0" THEN {"frequency_penalty"} ELSE {})
        \cup (IF StreamFlag(r) THEN {"stream"} ELSE {})

\* req.MarshalJSON(), as json.Marshal(&req) calls it: [err, data], data the
\* wire object as a function from its keys.  encoding/json refuses NaN.
MarshalJSON(r) ==
    IF "NaN" \in {r.PresencePenalty, r.FrequencyPenalty}
        THEN [err |-> "json: unsupported value", data |-> <<>>]
        ELSE [err |-> "",
              data |-> [k \in WireKeys(r) |->
                            CASE k = "model" -> r.Model
                              [] k = "messages" -> r.Messages
                              [] k = "presence_penalty" -> r.PresencePenalty
                              [] k = "frequency_penalty" -> r.FrequencyPenalty
                              [] k = "stream" -> StreamFlag(r)]]

(***************************************************************************)
(* The client and the replies of the service.                              *)
(***************************************************************************)
\* NewClient's results: the token and the base URL (the default, or one
\* url.Parse refuses).
Clients == [token : {"tok"}, baseURL : {DefaultBaseURL, ":"}]

\* Whether http.NewRequestWithContext accepts the URL.
URLParses(url) == url[1] # ":"

JStr(s) == <<QUOTE>> \o s \o <<QUOTE>>

JObj1(k, v) == <<"{">> \o JStr(k) \o <<":">> \o v \o <<"}">>

EventA == JObj1(IdKey, JStr(<<"a">>))
EventB == JObj1(IdKey, JStr(<<"b">>))
Truncated == <<"{">> \o JStr(IdKey) \o <<":">>
ErrorText == <<"b", "a", "d">>

\* The lines a 200 reply is made of: two events, a malformed event, the
\* sentinel, an empty line, an event longer than the scanner's limit, and a
\* document without the data prefix.
Lines ==
    {DataPrefix \o EventA,
     DataPrefix \o EventB,
     DataPrefix \o Truncated,
     DoneSentinel,
     <<>>,
     DataPrefix \o EventA \o <<PAD>>,
     EventA}

\* The lines a reply with another status is made of: the error documents of
\* the service (a message, an empty message, a number for a message), a
\* document without an error field, and an event line.
ErrorLines ==
    {JObj1(ErrorKey, JStr(ErrorText)),
     JObj1(ErrorKey, JStr(<<>>)),
     JObj1(ErrorKey, <<"7">>),
     EventA,
     DataPrefix \o EventA}

\* The bytes of a body of these lines, the last one ended by a newline or
\* not.
RECURSIVE Join(_, _)
Join(ls, terminated) ==
    IF ls = <<>> THEN <<>>
    ELSE IF Len(ls) = 1 /\ ~terminated THEN ls[1]
    ELSE ls[1] \o <<NL>> \o Join(Tail(ls), terminated)

Bodies(lines) ==
    {[bytes |-> Join(ls, t), fail |-> f] :
        ls \in SeqsUpTo(lines, MaxLines), t \in BOOLEAN, f \in BOOLEAN}

ContentTypes ==
    {<<>>,
     <<"application/json">>,
     <<"text/event-stream">>,
     <<"text/event-stream", ";", " charset=utf-8">>}

StatusOK == 200

Statuses == {StatusOK, 201, 400}

Replies ==
    [present : {TRUE}, StatusCode : {StatusOK}, ContentType : ContentTypes,
     Body : Bodies(Lines)]
    \cup
    [present : {TRUE}, StatusCode : Statuses \ {StatusOK}, ContentType : ContentTypes,
     Body : Bodies(ErrorLines)]

\* IsEventStream without the prefix test: the bare media type only.
IsEventStream_ExactOnly(contentType) == contentType = <<"text/event-stream">>

\* The content-type test of ChatCompletion.
IsEventStream(contentType) ==
    \/ contentType = <<"text/event-stream">>
    \/ HasPrefix(contentType, <<"text/event-stream", ";">>)

(***************************************************************************)
(* The state.  Every variable but client is a function of the call.        *)
(***************************************************************************)
VARIABLES
    client,     \* the Client the calls share: token and base URL
    pc,         \* where each call is
    callerReq,  \* the request value of the caller
    req,        \* the callee's copy of it (the parameter req)
    jsonData,   \* the marshalled payload
    httpReq,    \* the HTTP request that was built
    exchanges,  \* how many times c.client.Do was called
    res,        \* the *http.Response of the exchange
    bodyRead,   \* how many bytes were read from res.Body
    closes,     \* how many times res.Body.Close was called
    scanner,    \* the bufio.Scanner of the streaming loop
    delivered,  \* the values the callback was invoked with, in order
    ret         \* what ChatCompletion returned: [resp, err]

vars ==
    <<client, pc, callerReq, req, jsonData, httpReq, exchanges, res, bodyRead,
      closes, scanner, delivered, ret>>

\* A request no call is made with: the value of a call that is not used.
ZeroRequest ==
    [Model |-> "", Messages |-> <<>>, PresencePenalty |-> "0",
     FrequencyPenalty |-> "0", Stream |-> "nil"]

NoScanner == [start |-> 0, err |-> ""]

\* One call, "A", about to run ChatCompletion with any request on any client.
Init ==
    /\ client \in Clients
    /\ pc = [c \in Calls |-> IF c = "A" THEN "validate" ELSE "unused"]
    /\ \E r \in Requests :
        callerReq = [c \in Calls |-> IF c = "A" THEN r ELSE ZeroRequest]
    /\ req = callerReq
    /\ jsonData = [c \in Calls |-> <<>>]
    /\ httpReq = [c \in Calls |-> NoReq]
    /\ exchanges = [c \in Calls |-> 0]
    /\ res = [c \in Calls |-> NoRes]
    /\ bodyRead = [c \in Calls |-> 0]
    /\ closes = [c \in Calls |-> 0]
    /\ scanner = [c \in Calls |-> NoScanner]
    /\ delivered = [c \in Calls |-> <<>>]
    /\ ret = [c \in Calls |-> [resp |-> NilResp, err |-> NilErr]]

\* return resp, err with the next place of the call.
Return(c, resp, err, next) ==
    /\ ret' = [ret EXCEPT ![c] = [resp |-> resp, err |-> err]]
    /\ pc' = [pc EXCEPT ![c] = next]

(***************************************************************************)
(* ChatCompletion.                                                         *)
(***************************************************************************)
\* The four validation tests.
Validate(c) ==
    /\ pc[c] = "validate"
    /\ IF ValidationError(req[c]) # ""
          THEN Return(c, NilResp, Err(ValidationError(req[c]), <<>>, 0, ""), "done")
          ELSE /\ pc' = [pc EXCEPT ![c] = "marshal"]
               /\ UNCHANGED ret
    /\ UNCHANGED <<client, callerReq, req, jsonData, httpReq, exchanges, res,
                   bodyRead, closes, scanner, delivered>>

\* jsonData, err := json.Marshal(&req)
Marshal(c) ==
    /\ pc[c] = "marshal"
    /\ LET m == MarshalJSON(req[c])
       IN  IF m.err # ""
              THEN /\ Return(c, NilResp, Err(m.err, <<>>, 0, ""), "done")
                   /\ UNCHANGED jsonData
              ELSE /\ jsonData' = [jsonData EXCEPT ![c] = m.data]
                   /\ pc' = [pc EXCEPT ![c] = "newRequest"]
                   /\ UNCHANGED ret
    /\ UNCHANGED <<client, callerReq, req, httpReq, exchanges, res, bodyRead,
                   closes, scanner, delivered>>

\* http.NewRequestWithContext and the two headers.
NewRequest(c) ==
    /\ pc[c] = "newRequest"
    /\ LET url == <<client.baseURL, "/chat/completions">>
       IN  IF ~URLParses(url)
              THEN /\ Return(c, NilResp, Err("parse url", <<>>, 0, ""), "done")
                   /\ UNCHANGED httpReq
              ELSE /\ httpReq' = [httpReq EXCEPT ![c] =
                                    [Method |-> "POST", URL |-> url,
                                     Authorization |-> <<"Bearer ", client.token>>,
                                     ContentType |-> "application/json"]]
                   /\ pc' = [pc EXCEPT ![c] = "do"]
                   /\ UNCHANGED ret
    /\ UNCHANGED <<client, callerReq, req, jsonData, exchanges, res, bodyRead,
                   closes, scanner, delivered>>

\* res, err := c.client.Do(httpReq): the exchange fails, or the service
\* answers with one of replies.  From here on the deferred res.Body.Close()
\* of ChatCompletion is pending.
DoWith(c, replies) ==
    /\ pc[c] = "do"
    /\ exchanges' = [exchanges EXCEPT ![c] = @ + 1]
    /\ \/ /\ Return(c, NilResp, Err("transport", <<>>, 0, ""), "done")
          /\ UNCHANGED res
       \/ /\ \E r \in replies : res' = [res EXCEPT ![c] = r]
          /\ pc' = [pc EXCEPT ![c] = "checkStatus"]
          /\ UNCHANGED ret
    /\ UNCHANGED <<client, callerReq, req, jsonData, httpReq, bodyRead, closes,
                   scanner, delivered>>

\* Do that tries the exchange a second time when the first one fails.
Do_Retry(c) ==
    \/ DoWith(c, Replies)
    \/ /\ pc[c] = "do"
       /\ exchanges[c] = 0
       /\ exchanges' = [exchanges EXCEPT ![c] = @ + 1]
       /\ UNCHANGED <<client, pc, callerReq, req, jsonData, httpReq, res, bodyRead,
                      closes, scanner, delivered, ret>>

Do(c) == DoWith(c, Replies)

\* CheckStatus without the test e.Error != "".
CheckStatus_EmptyMessage(c) ==
    /\ pc[c] = "checkStatus"
    /\ IF res[c].StatusCode # StatusOK
          THEN LET e == Unmarshal(res[c].Body.bytes, ErrorKey)
               IN  /\ bodyRead' = [bodyRead EXCEPT ![c] = Len(res[c].Body.bytes)]
                   /\ IF e.err = ""
                         THEN Return(c, NilResp, Err("API error: %s", e.val, 0, ""),
                                     "deferClose")
                         ELSE Return(c, NilResp,
                                     Err("unexpected status code: %s", <<>>,
                                         res[c].StatusCode, ""),
                                     "deferClose")
          ELSE /\ pc' = [pc EXCEPT ![c] = "classify"]
               /\ UNCHANGED <<bodyRead, ret>>
    /\ UNCHANGED <<client, callerReq, req, jsonData, httpReq, exchanges, res,
                   closes, scanner, delivered>>

\* if res.StatusCode != http.StatusOK { ... }
CheckStatus(c) ==
    /\ pc[c] = "checkStatus"
    /\ IF res[c].StatusCode # StatusOK
          THEN LET e == Unmarshal(res[c].Body.bytes, ErrorKey)
               IN  /\ bodyRead' = [bodyRead EXCEPT ![c] = Len(res[c].Body.bytes)]
                   /\ IF e.err = "" /\ e.val # <<>>
                         THEN Return(c, NilResp, Err("API error: %s", e.val, 0, ""),
                                     "deferClose")
                         ELSE Return(c, NilResp,
                                     Err("unexpected status code: %s", <<>>,
                                         res[c].StatusCode, ""),
                                     "deferClose")
          ELSE /\ pc' = [pc EXCEPT ![c] = "classify"]
               /\ UNCHANGED <<bodyRead, ret>>
    /\ UNCHANGED <<client, callerReq, req, jsonData, httpReq, exchanges, res,
                   closes, scanner, delivered>>

\* A return of handleStreamingResponse: its own deferred res.Body.Close()
\* runs, and ChatCompletion returns nil with its error.
StreamReturn(c, err) ==
    /\ closes' = [closes EXCEPT ![c] = @ + 1]
    /\ Return(c, NilResp, err, "deferClose")

\* The start of handleStreamingResponse(res, onUpdate): the test of the
\* handler, and the scanner.
EnterStreaming(c, onUpdate) ==
    IF onUpdate = "nil"
        THEN StreamReturn(c, Err("onUpdate handler is required for streaming responses",
                                 <<>>, 0, ""))
        ELSE /\ pc' = [pc EXCEPT ![c] = "scan"]
             /\ UNCHANGED <<ret, closes>>

\* Classify without the test for a missing handler.
Classify_NoHandlerTest(c) ==
    /\ pc[c] = "classify"
    /\ IF IsEventStream(res[c].ContentType)
          THEN EnterStreaming(c, req[c].Stream)
          ELSE /\ pc' = [pc EXCEPT ![c] = "readBody"]
               /\ UNCHANGED <<ret, closes>>
    /\ UNCHANGED <<client, callerReq, req, jsonData, httpReq, exchanges, res,
                   bodyRead, scanner, delivered>>

\* The content-type test, and the test for a missing handler.
Classify(c) ==
    /\ pc[c] = "classify"
    /\ IF IsEventStream(res[c].ContentType)
          THEN IF req[c].Stream = "nil"
                  THEN /\ Return(c, NilResp,
                                 Err("streaming response received but no stream handler provided",
                                     <<>>, 0, ""),
                                 "deferClose")
                       /\ UNCHANGED closes
                  ELSE EnterStreaming(c, req[c].Stream)
          ELSE /\ pc' = [pc EXCEPT ![c] = "readBody"]
               /\ UNCHANGED <<ret, closes>>
    /\ UNCHANGED <<client, callerReq, req, jsonData, httpReq, exchanges, res,
                   bodyRead, scanner, delivered>>

\* ReadBody that returns the response it decoded into along with the error.
ReadBody_KeepsResponse(c) ==
    /\ pc[c] = "readBody"
    /\ bodyRead' = [bodyRead EXCEPT ![c] = Len(res[c].Body.bytes)]
    /\ LET d == Unmarshal(res[c].Body.bytes, IdKey)
       IN  IF res[c].Body.fail
              THEN Return(c, NilResp, Err("read", <<>>, 0, ""), "deferClose")
           ELSE IF d.err # ""
              THEN Return(c, Response(d.val), Err(d.err, <<>>, 0, ""), "deferClose")
           ELSE Return(c, Response(d.val), NilErr, "deferClose")
    /\ UNCHANGED <<client, callerReq, req, jsonData, httpReq, exchanges, res,
                   closes, scanner, delivered>>

\* ReadBody that drops the error of io.ReadAll and decodes what was read.
ReadBody_IgnoresReadError(c) ==
    /\ pc[c] = "readBody"
    /\ bodyRead' = [bodyRead EXCEPT ![c] = Len(res[c].Body.bytes)]
    /\ LET d == Unmarshal(res[c].Body.bytes, IdKey)
       IN  IF d.err # ""
              THEN Return(c, NilResp, Err(d.err, <<>>, 0, ""), "deferClose")
              ELSE Return(c, Response(d.val), NilErr, "deferClose")
    /\ UNCHANGED <<client, callerReq, req, jsonData, httpReq, exchanges, res,
                   closes, scanner, delivered>>

\* io.ReadAll(res.Body) and json.Unmarshal on the single-document path.
ReadBody(c) ==
    /\ pc[c] = "readBody"
    /\ bodyRead' = [bodyRead EXCEPT ![c] = Len(res[c].Body.bytes)]
    /\ LET d == Unmarshal(res[c].Body.bytes, IdKey)
       IN  IF res[c].Body.fail
              THEN Return(c, NilResp, Err("read", <<>>, 0, ""), "deferClose")
           ELSE IF d.err # ""
              THEN Return(c, NilResp, Err(d.err, <<>>, 0, ""), "deferClose")
           ELSE Return(c, Response(d.val), NilErr, "deferClose")
    /\ UNCHANGED <<client, callerReq, req, jsonData, httpReq, exchanges, res,
                   closes, scanner, delivered>>

(***************************************************************************)
(* The loop of handleStreamingResponse.                                    *)
(***************************************************************************)
\* The loop has ended (Scan returned false, or break): scanner.Err().
AfterLoop(c, scanErr) ==
    IF ScannerErr(scanErr) # ""
        THEN StreamReturn(c, Err("error reading streaming response: %w", <<>>, 0,
                                 scanErr))
        ELSE StreamReturn(c, NilErr)

\* ScanLine that goes on with the loop at the sentinel line.
ScanLine_NoBreak(c) ==
    /\ pc[c] = "scan"
    /\ \E ahead \in BOOLEAN :
        LET s == ScanStep(res[c].Body, scanner[c].start, scanner[c].err,
                          bodyRead[c], ahead)
            line == s.token
            d == Unmarshal(From(line, 6), IdKey)
        IN  /\ scanner' = [scanner EXCEPT ![c] = [start |-> s.start, err |-> s.err]]
            /\ bodyRead' = [bodyRead EXCEPT ![c] = s.got]
            /\ IF ~s.ok
                  THEN AfterLoop(c, s.err) /\ UNCHANGED delivered
               ELSE IF line = <<>>
                  THEN UNCHANGED <<pc, ret, closes, delivered>>
               ELSE IF line = DoneSentinel
                  THEN UNCHANGED <<pc, ret, closes, delivered>>
               ELSE IF Len(line) >= 6 /\ SubSeq(line, 1, 6) = DataPrefix
                  THEN IF d.err # ""
                          THEN /\ StreamReturn(c,
                                      Err("failed to unmarshal streaming event: %w",
                                          <<>>, 0, d.err))
                               /\ UNCHANGED delivered
                          ELSE /\ delivered' = [delivered EXCEPT ![c] =
                                                    Append(@, Response(d.val))]
                               /\ pc' = [pc EXCEPT ![c] = "onUpdate"]
                               /\ UNCHANGED <<ret, closes>>
               ELSE UNCHANGED <<pc, ret, closes, delivered>>
    /\ UNCHANGED <<client, callerReq, req, jsonData, httpReq, exchanges, res>>

\* ScanLine that starts onUpdate and does not wait for it to return.
ScanLine_Async(c) ==
    /\ pc[c] = "scan"
    /\ \E ahead \in BOOLEAN :
        LET s == ScanStep(res[c].Body, scanner[c].start, scanner[c].err,
                          bodyRead[c], ahead)
            line == s.token
            d == Unmarshal(From(line, 6), IdKey)
        IN  /\ scanner' = [scanner EXCEPT ![c] = [start |-> s.start, err |-> s.err]]
            /\ bodyRead' = [bodyRead EXCEPT ![c] = s.got]
            /\ IF ~s.ok
                  THEN AfterLoop(c, s.err) /\ UNCHANGED delivered
               ELSE IF line = <<>>
                  THEN UNCHANGED <<pc, ret, closes, delivered>>
               ELSE IF line = DoneSentinel
                  THEN AfterLoop(c, s.err) /\ UNCHANGED delivered
               ELSE IF Len(line) >= 6 /\ SubSeq(line, 1, 6) = DataPrefix
                  THEN IF d.err # ""
                          THEN /\ StreamReturn(c,
                                      Err("failed to unmarshal streaming event: %w",
                                          <<>>, 0, d.err))
                               /\ UNCHANGED delivered
                          ELSE /\ delivered' = [delivered EXCEPT ![c] =
                                                    Append(@, Response(d.val))]
                               /\ UNCHANGED <<pc, ret, closes>>
               ELSE UNCHANGED <<pc, ret, closes, delivered>>
    /\ UNCHANGED <<client, callerReq, req, jsonData, httpReq, exchanges, res>>

\* ScanLine that looks at an empty line without taking it from the scanner.
ScanLine_EmptyNotConsumed(c) ==
    /\ pc[c] = "scan"
    /\ \E ahead \in BOOLEAN :
        LET s == ScanStep(res[c].Body, scanner[c].start, scanner[c].err,
                          bodyRead[c], ahead)
            line == s.token
            d == Unmarshal(From(line, 6), IdKey)
        IN  /\ scanner' = [scanner EXCEPT ![c] =
                               IF s.ok /\ line = <<>>
                                   THEN scanner[c]
                                   ELSE [start |-> s.start, err |-> s.err]]
            /\ bodyRead' = [bodyRead EXCEPT ![c] = s.got]
            /\ IF ~s.ok
                  THEN AfterLoop(c, s.err) /\ UNCHANGED delivered
               ELSE IF line = <<>>
                  THEN UNCHANGED <<pc, ret, closes, delivered>>
               ELSE IF line = DoneSentinel
                  THEN AfterLoop(c, s.err) /\ UNCHANGED delivered
               ELSE IF Len(line) >= 6 /\ SubSeq(line, 1, 6) = DataPrefix
                  THEN IF d.err # ""
                          THEN /\ StreamReturn(c,
                                      Err("failed to unmarshal streaming event: %w",
                                          <<>>, 0, d.err))
                               /\ UNCHANGED delivered
                          ELSE /\ delivered' = [delivered EXCEPT ![c] =
                                                    Append(@, Response(d.val))]
                               /\ pc' = [pc EXCEPT ![c] = "onUpdate"]
                               /\ UNCHANGED <<ret, closes>>
               ELSE UNCHANGED <<pc, ret, closes, delivered>>
    /\ UNCHANGED <<client, callerReq, req, jsonData, httpReq, exchanges, res>>

\* ScanLine that takes every line that begins with the sentinel for it.
ScanLine_PrefixSentinel(c) ==
    /\ pc[c] = "scan"
    /\ \E ahead \in BOOLEAN :
        LET s == ScanStep(res[c].Body, scanner[c].start, scanner[c].err,
                          bodyRead[c], ahead)
            line == s.token
            d == Unmarshal(From(line, 6), IdKey)
        IN  /\ scanner' = [scanner EXCEPT ![c] = [start |-> s.start, err |-> s.err]]
            /\ bodyRead' = [bodyRead EXCEPT ![c] = s.got]
            /\ IF ~s.ok
                  THEN AfterLoop(c, s.err) /\ UNCHANGED delivered
               ELSE IF line = <<>>
                  THEN UNCHANGED <<pc, ret, closes, delivered>>
               ELSE IF HasPrefix(line, DoneSentinel)
                  THEN AfterLoop(c, s.err) /\ UNCHANGED delivered
               ELSE IF Len(line) >= 6 /\ SubSeq(line, 1, 6) = DataPrefix
                  THEN IF d.err # ""
                          THEN /\ StreamReturn(c,
                                      Err("failed to unmarshal streaming event: %w",
                                          <<>>, 0, d.err))
                               /\ UNCHANGED delivered
                          ELSE /\ delivered' = [delivered EXCEPT ![c] =
                                                    Append(@, Response(d.val))]
                               /\ pc' = [pc EXCEPT ![c] = "onUpdate"]
                               /\ UNCHANGED <<ret, closes>>
               ELSE UNCHANGED <<pc, ret, closes, delivered>>
    /\ UNCHANGED <<client, callerReq, req, jsonData, httpReq, exchanges, res>>

\* One turn of the loop: scanner.Scan() and the tests on the line, up to the
\* call of onUpdate.
ScanLine(c) ==
    /\ pc[c] = "scan"
    /\ \E ahead \in BOOLEAN :
        LET s == ScanStep(res[c].Body, scanner[c].start, scanner[c].err,
                          bodyRead[c], ahead)
            line == s.token
            d == Unmarshal(From(line, 6), IdKey)
        IN  /\ scanner' = [scanner EXCEPT ![c] = [start |-> s.start, err |-> s.err]]
            /\ bodyRead' = [bodyRead EXCEPT ![c] = s.got]
            /\ IF ~s.ok
                  THEN AfterLoop(c, s.err) /\ UNCHANGED delivered
               ELSE IF line = <<>>
                  THEN UNCHANGED <<pc, ret, closes, delivered>>
               ELSE IF line = DoneSentinel
                  THEN AfterLoop(c, s.err) /\ UNCHANGED delivered
               ELSE IF Len(line) >= 6 /\ SubSeq(line, 1, 6) = DataPrefix
                  THEN IF d.err # ""
                          THEN /\ StreamReturn(c,
                                      Err("failed to unmarshal streaming event: %w",
                                          <<>>, 0, d.err))
                               /\ UNCHANGED delivered
                          ELSE /\ delivered' = [delivered EXCEPT ![c] =
                                                    Append(@, Response(d.val))]
                               /\ pc' = [pc EXCEPT ![c] = "onUpdate"]
                               /\ UNCHANGED <<ret, closes>>
               ELSE UNCHANGED <<pc, ret, closes, delivered>>
    /\ UNCHANGED <<client, callerReq, req, jsonData, httpReq, exchanges, res>>

\* onUpdate(response) returns, and the loop goes on.
OnUpdateReturn(c) ==
    /\ pc[c] = "onUpdate"
    /\ pc' = [pc EXCEPT ![c] = "scan"]
    /\ UNCHANGED <<client, callerReq, req, jsonData, httpReq, exchanges, res,
                   bodyRead, closes, scanner, delivered, ret>>

\* DeferClose that closes the body of every call: the response kept in a
\* field of the Client the calls share.
DeferClose_ClosesAll(c) ==
    /\ pc[c] = "deferClose"
    /\ closes' = [d \in Calls |-> closes[d] + 1]
    /\ pc' = [pc EXCEPT ![c] = "done"]
    /\ UNCHANGED <<client, callerReq, req, jsonData, httpReq, exchanges, res,
                   bodyRead, scanner, delivered, ret>>

\* The deferred res.Body.Close() of ChatCompletion, run as it returns.
DeferClose(c) ==
    /\ pc[c] = "deferClose"
    /\ closes' = [closes EXCEPT ![c] = @ + 1]
    /\ pc' = [pc EXCEPT ![c] = "done"]
    /\ UNCHANGED <<client, callerReq, req, jsonData, httpReq, exchanges, res,
                   bodyRead, scanner, delivered, ret>>

Next ==
    \E c \in Calls :
        \/ Validate(c)
        \/ Marshal(c)
        \/ NewRequest(c)
        \/ Do(c)
        \/ CheckStatus(c)
        \/ Classify(c)
        \/ ReadBody(c)
        \/ ScanLine(c)
        \/ OnUpdateReturn(c)
        \/ DeferClose(c)

Spec == Init /\ [][Next]_vars

(***************************************************************************)
(* A second specification, for the classification and the framing: one     *)
(* valid request, with a callback or without, and 200 replies over more    *)
(* content types and more kinds of line.                                   *)
(***************************************************************************)
FramingRequests ==
    [Model : {"sonar"},
     Messages : {<<[Role |-> MessageRoleUser]>>},
     PresencePenalty : {"0"},
     FrequencyPenalty : {"0"},
     Stream : {"nil", "onUpdate"}]

\* The content types of Replies, text/event-stream with a parameter that
\* follows the semicolon at once, and two media types that are not
\* text/event-stream but hold its name: text/event-streaming, and
\* text/plain with text/event-stream in a parameter.
FramingContentTypes ==
    ContentTypes
        \cup {<<"text/event-stream", ";", "charset=utf-8">>,
              <<"text/event-stream", "ing">>,
              <<"text/plain", ";", " x=", "text/event-stream">>}

EventField == <<"e", "v", "e", "n", "t", ":", " ", "m">>
NoSpaceData == <<"d", "a", "t", "a", ":">> \o EventA
LongComment == <<":", PAD>>

\* An event, a malformed event, the sentinel, an empty line, and three
\* lines without the data prefix: an event field, a data field without the
\* space, and a comment longer than the scanner's limit.
FramingLines ==
    {DataPrefix \o EventA,
     DataPrefix \o Truncated,
     DoneSentinel,
     <<>>,
     EventField,
     NoSpaceData,
     LongComment}

FramingReplies ==
    [present : {TRUE}, StatusCode : {StatusOK}, ContentType : FramingContentTypes,
     Body : Bodies(FramingLines)]

FramingInit ==
    /\ client = [token |-> "tok", baseURL |-> DefaultBaseURL]
    /\ pc = [c \in Calls |-> IF c = "A" THEN "validate" ELSE "unused"]
    /\ \E r \in FramingRequests :
        callerReq = [c \in Calls |-> IF c = "A" THEN r ELSE ZeroRequest]
    /\ req = callerReq
    /\ jsonData = [c \in Calls |-> <<>>]
    /\ httpReq = [c \in Calls |-> NoReq]
    /\ exchanges = [c \in Calls |-> 0]
    /\ res = [c \in Calls |-> NoRes]
    /\ bodyRead = [c \in Calls |-> 0]
    /\ closes = [c \in Calls |-> 0]
    /\ scanner = [c \in Calls |-> NoScanner]
    /\ delivered = [c \in Calls |-> <<>>]
    /\ ret = [c \in Calls |-> [resp |-> NilResp, err |-> NilErr]]

FramingNext ==
    \E c \in Calls :
        \/ Validate(c)
        \/ Marshal(c)
        \/ NewRequest(c)
        \/ DoWith(c, FramingReplies)
        \/ CheckStatus(c)
        \/ Classify(c)
        \/ ReadBody(c)
        \/ ScanLine(c)
        \/ OnUpdateReturn(c)
        \/ DeferClose(c)

FramingSpec == FramingInit /\ [][FramingNext]_vars

\* The steps of a call outside the loop, and the return of the callback.
FramingStep ==
    \E c \in Calls :
        \/ Validate(c)
        \/ Marshal(c)
        \/ NewRequest(c)
        \/ DoWith(c, FramingReplies)
        \/ CheckStatus(c)
        \/ Classify(c)
        \/ ReadBody(c)
        \/ OnUpdateReturn(c)
        \/ DeferClose(c)

\* The same with the fairness of a running call: ChatCompletion runs on the
\* caller's goroutine, which goes on to its next step as long as it has one,
\* the exchange answers or fails, the callback returns, and a Read of the
\* finite body returns.  The fairness of the loop is WF_vars(ScanLine(c))
\* with its enabling condition written out: a turn of the loop is enabled
\* exactly when the call is at the head of the loop.
FairSpec ==
    /\ FramingSpec
    /\ WF_vars(FramingStep)
    /\ \A c \in Calls : []<>(pc[c] # "scan") \/ []<><<ScanLine(c)>>_vars

(***************************************************************************)
(* The framing of the sentinel: the requests of FramingSpec, and event     *)
(* streams of an event, the sentinel, and data lines that are nearly the   *)
(* sentinel.                                                               *)
(***************************************************************************)
SentinelWithSpace == DoneSentinel \o <<" ">>
SentinelLowerCase == DataPrefix \o <<"[", "d", "o", "n", "e", "]">>

SentinelLines ==
    {DataPrefix \o EventA,
     DoneSentinel,
     SentinelWithSpace,
     SentinelLowerCase,
     DataPrefix}

SentinelReplies ==
    [present : {TRUE}, StatusCode : {StatusOK},
     ContentType : {<<"text/event-stream">>, <<"application/json">>},
     Body : Bodies(SentinelLines)]

SentinelNext ==
    \E c \in Calls :
        \/ Validate(c)
        \/ Marshal(c)
        \/ NewRequest(c)
        \/ DoWith(c, SentinelReplies)
        \/ CheckStatus(c)
        \/ Classify(c)
        \/ ReadBody(c)
        \/ ScanLine(c)
        \/ OnUpdateReturn(c)
        \/ DeferClose(c)

SentinelSpec == FramingInit /\ [][SentinelNext]_vars

(***************************************************************************)
(* A third specification: two ChatCompletion calls on one Client, each on  *)
(* its own goroutine, their steps interleaved in every order.  The service *)
(* answers each call with events of its own: id a for call A, id b for     *)
(* call B.                                                                 *)
(***************************************************************************)
EventFor(c) == IF c = "A" THEN EventA ELSE EventB

\* The bodies of a call's event streams: two events and the sentinel; an
\* event and a malformed event; an event after which the read fails.
ConcBodies(c) ==
    {[bytes |-> Join(<<DataPrefix \o EventFor(c), DataPrefix \o EventFor(c),
                       DoneSentinel>>, TRUE),
      fail |-> FALSE],
     [bytes |-> Join(<<DataPrefix \o EventFor(c), DataPrefix \o Truncated>>, TRUE),
      fail |-> FALSE],
     [bytes |-> Join(<<DataPrefix \o EventFor(c)>>, TRUE),
      fail |-> TRUE]}

\* An event stream, one document, or an error of the service.
ConcReplies(c) ==
    [present : {TRUE}, StatusCode : {StatusOK}, ContentType : {<<"text/event-stream">>},
     Body : ConcBodies(c)]
    \cup
    {[present |-> TRUE, StatusCode |-> StatusOK, ContentType |-> <<"application/json">>,
      Body |-> [bytes |-> EventFor(c), fail |-> FALSE]],
     [present |-> TRUE, StatusCode |-> 400, ContentType |-> <<"application/json">>,
      Body |-> [bytes |-> JObj1(ErrorKey, JStr(ErrorText)), fail |-> FALSE]]}

ConcInit ==
    /\ client = [token |-> "tok", baseURL |-> DefaultBaseURL]
    /\ pc = [c \in Calls |-> "validate"]
    /\ callerReq \in [Calls -> FramingRequests]
    /\ req = callerReq
    /\ jsonData = [c \in Calls |-> <<>>]
    /\ httpReq = [c \in Calls |-> NoReq]
    /\ exchanges = [c \in Calls |-> 0]
    /\ res = [c \in Calls |-> NoRes]
    /\ bodyRead = [c \in Calls |-> 0]
    /\ closes = [c \in Calls |-> 0]
    /\ scanner = [c \in Calls |-> NoScanner]
    /\ delivered = [c \in Calls |-> <<>>]
    /\ ret = [c \in Calls |-> [resp |-> NilResp, err |-> NilErr]]

ConcNext ==
    \E c \in Calls :
        \/ Validate(c)
        \/ Marshal(c)
        \/ NewRequest(c)
        \/ DoWith(c, ConcReplies(c))
        \/ CheckStatus(c)
        \/ Classify(c)
        \/ ReadBody(c)
        \/ ScanLine(c)
        \/ OnUpdateReturn(c)
        \/ DeferClose(c)

ConcSpec == ConcInit /\ [][ConcNext]_vars

(***************************************************************************)
(* What the claims speak of.                                               *)
(***************************************************************************)
Returned(c) == pc[c] = "done"

\* The lines of a body as the framing defines them: the text between
\* newlines, and what follows the last newline when that is not empty.
RECURSIVE SplitLines(_)
SplitLines(bytes) ==
    IF bytes = <<>> THEN <<>>
    ELSE LET p == NextNL(bytes, 0)
         IN  IF p = 0 THEN <<bytes>>
             ELSE <<SubSeq(bytes, 1, p - 1)>> \o SplitLines(From(bytes, p))

IsDataLine(line) == HasPrefix(line, DataPrefix) /\ line # DoneSentinel

IsValidEvent(line) ==
    IsDataLine(line) /\ Unmarshal(From(line, Len(DataPrefix)), IdKey).err = ""

IsMalformedEvent(line) ==
    IsDataLine(line) /\ Unmarshal(From(line, Len(DataPrefix)), IdKey).err # ""

\* The value the event of a data line decodes to.
EventOf(line) == Response(Unmarshal(From(line, Len(DataPrefix)), IdKey).val)

\* The events of the valid data lines among ls, in order.
RECURSIVE EventsOf(_)
EventsOf(ls) ==
    IF ls = <<>> THEN <<>>
    ELSE (IF IsValidEvent(Head(ls)) THEN <<EventOf(Head(ls))>> ELSE <<>>)
             \o EventsOf(Tail(ls))

\* A 200 reply classified as an event stream, to a call that has a callback.
Streaming(c) ==
    /\ res[c].present
    /\ res[c].StatusCode = StatusOK
    /\ IsEventStream(res[c].ContentType)
    /\ req[c].Stream # "nil"

DecodeFailure(e) == e.msg = "failed to unmarshal streaming event: %w"

ReadFailure(e) == e.msg = "error reading streaming response: %w"

ValidationMessages ==
    {"model is required",
     "at least one message is required",
     "the last message must be from the user",
     "PresencePenalty and FrequencyPenalty are incompatible; only one should be set"}

\* The four rules of the request, as the specification lists them.
BreaksModelRule(r) == r.Model = ""

BreaksMessagesRule(r) == r.Messages = <<>>

BreaksLastRoleRule(r) ==
    r.Messages # <<>> /\ r.Messages[Len(r.Messages)].Role # MessageRoleUser

BreaksPenaltyRule(r) == r.PresencePenalty # "0" /\ r.FrequencyPenalty # "0"

BreaksARule(r) ==
    \/ BreaksModelRule(r)
    \/ BreaksMessagesRule(r)
    \/ BreaksLastRoleRule(r)
    \/ BreaksPenaltyRule(r)

\* A status that signals failure: not 2xx.
IsFailureStatus(code) == code < 200 \/ code >= 300

(***************************************************************************)
(* C1.  Whenever the exchange returned a response, res.Body is closed      *)
(* exactly once by the time ChatCompletion returns.                        *)
(* The streaming path closes it twice: handleStreamingResponse defers a    *)
(* Close of its own, and so does ChatCompletion.                           *)
(***************************************************************************)
C1_ClosedExactlyOnce ==
    \A c \in Calls :
        Returned(c) /\ res[c].present => closes[c] = 1

(***************************************************************************)
(* C2.  For a 200 event-stream reply whose body is N valid data lines      *)
(* followed by the sentinel line, to a call with a callback, the callback  *)
(* is invoked exactly N times, the i-th time with the value of the i-th    *)
(* line, and ChatCompletion returns nil, nil.                              *)
(* A valid data line of MaxScanTokenSize bytes or more ends the loop with  *)
(* bufio.ErrTooLong instead.                                               *)
(***************************************************************************)
IsEventsThenDone(body) ==
    LET ls == SplitLines(body.bytes)
    IN  /\ ~body.fail
        /\ ls # <<>>
        /\ ls[Len(ls)] = DoneSentinel
        /\ \A i \in 1..(Len(ls) - 1) : IsValidEvent(ls[i])

C2_EventsThenDone ==
    \A c \in Calls :
        Returned(c) /\ Streaming(c) /\ IsEventsThenDone(res[c].Body)
            => /\ delivered[c] = EventsOf(SplitLines(res[c].Body.bytes))
               /\ Len(delivered[c]) = Len(SplitLines(res[c].Body.bytes)) - 1
               /\ ret[c] = [resp |-> NilResp, err |-> NilErr]

(***************************************************************************)
(* C3.  If the K-th data line of a stream is malformed JSON and the data   *)
(* lines before it are valid, the callback is invoked exactly K-1 times    *)
(* (with the K-1 events before it), no line after it is scanned, and       *)
(* ChatCompletion returns nil with the mid-stream decode error.            *)
(* The over-long line of C2 breaks this too: a valid data line of          *)
(* MaxScanTokenSize bytes or more before the malformed one ends the loop   *)
(* with a read error and fewer invocations.                                *)
(***************************************************************************)
\* ls[j] is the first malformed data line, and the stream has not ended
\* before it.
FirstMalformedAt(ls, j) ==
    /\ j \in 1..Len(ls)
    /\ IsMalformedEvent(ls[j])
    /\ \A i \in 1..(j - 1) : ls[i] # DoneSentinel /\ ~IsMalformedEvent(ls[i])

\* The number of bytes up to the end of line j, its newline included.
RECURSIVE EndOfLine(_, _)
EndOfLine(ls, j) ==
    IF j = 0 THEN 0 ELSE EndOfLine(ls, j - 1) + Len(ls[j]) + 1

C3_DecodeFailure ==
    \A c \in Calls :
        LET ls == SplitLines(res[c].Body.bytes)
        IN  \A j \in 1..Len(ls) :
                Returned(c) /\ Streaming(c) /\ FirstMalformedAt(ls, j)
                    => /\ delivered[c] = EventsOf(SubSeq(ls, 1, j - 1))
                       /\ scanner[c].start <= EndOfLine(ls, j)
                       /\ ret[c].resp = NilResp
                       /\ DecodeFailure(ret[c].err)

(***************************************************************************)
(* C4.  A 200 reply classified as an event stream to a call without a      *)
(* callback: ChatCompletion returns nil and the usage error, no byte of    *)
(* the body is read and the read loop is never entered, and the body is    *)
(* closed (once) when the call has returned.                               *)
(***************************************************************************)
MissingHandler(c) ==
    /\ res[c].present
    /\ res[c].StatusCode = StatusOK
    /\ IsEventStream(res[c].ContentType)
    /\ req[c].Stream = "nil"

C4_MissingHandler ==
    \A c \in Calls :
        MissingHandler(c)
            => /\ bodyRead[c] = 0
               /\ scanner[c] = NoScanner
               /\ delivered[c] = <<>>
               /\ pc[c] \in {"checkStatus", "classify", "deferClose", "done"}
               /\ pc[c] \in {"deferClose", "done"}
                    => ret[c] =
                         [resp |-> NilResp,
                          err |-> Err("streaming response received but no stream handler provided",
                                      <<>>, 0, "")]
               /\ Returned(c) => closes[c] = 1

C4_Witness ==
    \E c \in Calls :
        /\ Returned(c)
        /\ MissingHandler(c)
        /\ res[c].Body.bytes # <<>>
        /\ ret[c].err # NilErr

(***************************************************************************)
(* C5.  On a failure status the call ends with an error and a nil          *)
(* response, whatever the content type and the callback, which is never    *)
(* invoked: the error carries the message of the service when the body     *)
(* decodes as JSON with a non-empty error string (status 400 with          *)
(* {"error":"bad"} gives an error with the text bad), and is the generic   *)
(* one that names the status otherwise.                                    *)
(***************************************************************************)
FailureReply(c) == res[c].present /\ IsFailureStatus(res[c].StatusCode)

C5_FailureStatus ==
    \A c \in Calls :
        FailureReply(c)
            => /\ pc[c] \in {"checkStatus", "deferClose", "done"}
               /\ delivered[c] = <<>>
               /\ pc[c] \in {"deferClose", "done"}
                    => LET e == Unmarshal(res[c].Body.bytes, ErrorKey)
                       IN  /\ ret[c].resp = NilResp
                           /\ ret[c].err # NilErr
                           /\ IF e.err = "" /\ e.val # <<>>
                                 THEN ret[c].err = Err("API error: %s", e.val, 0, "")
                                 ELSE ret[c].err = Err("unexpected status code: %s", <<>>,
                                                       res[c].StatusCode, "")
                           /\ SplitLines(res[c].Body.bytes) = <<JObj1(ErrorKey, JStr(ErrorText))>>
                                => ret[c].err.text = ErrorText

C5_Witness ==
    \E c \in Calls :
        /\ Returned(c)
        /\ FailureReply(c)
        /\ res[c].StatusCode = 400
        /\ IsEventStream(res[c].ContentType)
        /\ req[c].Stream # "nil"
        /\ ret[c].err = Err("API error: %s", ErrorText, 0, "")

(***************************************************************************)
(* C6.  A request that breaks a validation rule: ChatCompletion returns    *)
(* nil and a validation error, with no HTTP exchange, no response body,    *)
(* no callback invocation and the request unchanged; an empty message      *)
(* sequence is answered by its own rule, the last message is not looked    *)
(* at.                                                                     *)
(***************************************************************************)
C6_ValidationFails ==
    \A c \in Calls :
        pc[c] # "unused" /\ BreaksARule(callerReq[c])
            => /\ pc[c] \in {"validate", "done"}
               /\ exchanges[c] = 0
               /\ httpReq[c] = NoReq
               /\ ~res[c].present
               /\ closes[c] = 0
               /\ delivered[c] = <<>>
               /\ req[c] = callerReq[c]
               /\ Returned(c)
                    => /\ ret[c].resp = NilResp
                       /\ ret[c].err.msg \in ValidationMessages
                       /\ BreaksPenaltyRule(callerReq[c]) /\ ~BreaksModelRule(callerReq[c])
                            /\ ~BreaksMessagesRule(callerReq[c])
                            /\ ~BreaksLastRoleRule(callerReq[c])
                            => ret[c].err.msg =
                                 "PresencePenalty and FrequencyPenalty are incompatible; only one should be set"
                       /\ BreaksMessagesRule(callerReq[c]) /\ ~BreaksModelRule(callerReq[c])
                            => ret[c].err.msg = "at least one message is required"
                       /\ BreaksLastRoleRule(callerReq[c]) /\ ~BreaksModelRule(callerReq[c])
                            => ret[c].err.msg = "the last message must be from the user"

C6_Witness ==
    \E c \in Calls :
        /\ Returned(c)
        /\ BreaksPenaltyRule(callerReq[c])
        /\ ~BreaksModelRule(callerReq[c])
        /\ ~BreaksMessagesRule(callerReq[c])
        /\ ~BreaksLastRoleRule(callerReq[c])
        /\ ret[c].err.msg \in ValidationMessages

(***************************************************************************)
(* C7.  A request that keeps all four rules (one of the two penalties may  *)
(* be non-zero) is not rejected by validation, and a call makes at most    *)
(* one exchange, a POST: no outcome leads to a second one.                 *)
(***************************************************************************)
C7_OneExchange ==
    \A c \in Calls :
        /\ exchanges[c] <= 1
        /\ exchanges[c] = 1 => httpReq[c].Method = "POST"
        /\ pc[c] # "unused" /\ ~BreaksARule(callerReq[c])
             => /\ pc[c] # "validate" => ret[c].err.msg \notin ValidationMessages
                /\ Returned(c) /\ exchanges[c] = 0
                     => ret[c].err.msg \in {"json: unsupported value", "parse url"}

C7_Witness ==
    \E c \in Calls :
        /\ Returned(c)
        /\ ~BreaksARule(callerReq[c])
        /\ callerReq[c].PresencePenalty = "0"
        /\ callerReq[c].FrequencyPenalty = "1"
        /\ exchanges[c] = 1
        /\ ReadFailure(ret[c].err)

(***************************************************************************)
(* C8.  The marshalled request holds the key stream, with the value true,  *)
(* exactly when the request has a callback; whether it does depends on     *)
(* nothing else, and the callback itself is no key of it.                  *)
(***************************************************************************)
Marshalled(c) == "model" \in DOMAIN jsonData[c]

C8_StreamFlag ==
    \A c \in Calls :
        /\ pc[c] \notin {"unused", "validate", "marshal", "done"} => Marshalled(c)
        /\ Marshalled(c)
             => /\ "stream" \in DOMAIN jsonData[c] <=> callerReq[c].Stream # "nil"
                /\ "stream" \in DOMAIN jsonData[c] => jsonData[c]["stream"] = TRUE
                /\ DOMAIN jsonData[c] \cap {"Stream", "-", ""} = {}

C8_Witness ==
    \E c \in Calls :
        /\ Marshalled(c)
        /\ callerReq[c].Stream # "nil"
        /\ callerReq[c].PresencePenalty = "1"
        /\ jsonData[c]["stream"] = TRUE

(***************************************************************************)
(* C9.  Whenever the request has a callback, the response ChatCompletion   *)
(* returns is nil, whatever the service replies.                           *)
(* A 200 reply that is not an event stream is decoded as one document and  *)
(* returned, callback or not.                                              *)
(***************************************************************************)
C9_NilWithCallback ==
    \A c \in Calls :
        Returned(c) /\ callerReq[c].Stream # "nil" => ret[c].resp = NilResp

(***************************************************************************)
(* C10.  ChatCompletion never returns a response together with an error;   *)
(* it returns a response only on the single-document path, after the       *)
(* whole body was read and decoded without error.                          *)
(***************************************************************************)
C10_ResponseXorError ==
    \A c \in Calls :
        /\ ret[c].err # NilErr => ret[c].resp = NilResp
        /\ ret[c].resp # NilResp
             => /\ pc[c] \in {"deferClose", "done"}
                /\ res[c].present
                /\ res[c].StatusCode = StatusOK
                /\ ~IsEventStream(res[c].ContentType)
                /\ bodyRead[c] = Len(res[c].Body.bytes)
                /\ ~res[c].Body.fail
                /\ Unmarshal(res[c].Body.bytes, IdKey) = [err |-> "", val |-> ret[c].resp.ID]
                /\ delivered[c] = <<>>

C10_Witness ==
    \E c \in Calls :
        /\ Returned(c)
        /\ ret[c].resp = Response(<<"a">>)
        /\ ret[c].err = NilErr

(***************************************************************************)
(* C11.  A 200 reply that is not classified as an event stream is read to  *)
(* its end and decoded as one ChatCompletionResponse: a failed read or a   *)
(* failed decode ends the call with an error and a nil response, a         *)
(* success returns the decoded value with a nil error, and the callback    *)
(* is not invoked on this path, nor is the streaming loop entered.         *)
(***************************************************************************)
SingleDocument(c) ==
    /\ res[c].present
    /\ res[c].StatusCode = StatusOK
    /\ ~IsEventStream(res[c].ContentType)

IsSuccessStatus(code) == code >= 200 /\ code < 300

StatusErrors == {"API error: %s", "unexpected status code: %s"}

C12_SuccessStatus ==
    \A c \in Calls :
        res[c].present /\ IsSuccessStatus(res[c].StatusCode)
            => ret[c].err.msg \notin StatusErrors

(***************************************************************************)
(* C13.  A 200 reply goes to the streaming path exactly when its           *)
(* Content-Type is text/event-stream, alone or followed by parameters      *)
(* (text/event-stream; charset=utf-8); with any other content type, an     *)
(* absent one included, it goes to the single-document path.  On the       *)
(* streaming path the call enters the read loop, or, without a callback,   *)
(* returns the missing-handler error.                                      *)
(***************************************************************************)
\* The media type of a Content-Type value: what precedes the first ";".
RECURSIVE MediaType(_)
MediaType(ct) ==
    IF ct = <<>> \/ Head(ct) = ";" THEN <<>>
    ELSE <<Head(ct)>> \o MediaType(Tail(ct))

DenotesEventStream(ct) == MediaType(ct) = <<"text/event-stream">>

IsIgnoredLine(line) == line = <<>> \/ ~HasPrefix(line, DataPrefix)

EndsStream(line) == line = DoneSentinel \/ IsMalformedEvent(line)

\* The index of the first line that ends the stream, Len(ls) + 1 when none
\* does.
FirstEnd(ls) ==
    LET K == {k \in 1..Len(ls) : EndsStream(ls[k])}
    IN  IF K = {} THEN Len(ls) + 1 ELSE CHOOSE k \in K : \A j \in K : k <= j

C14_IgnoredLines ==
    \A c \in Calls :
        Returned(c) /\ Streaming(c)
            => LET ls == SplitLines(res[c].Body.bytes)
                   k == FirstEnd(ls)
                   malformed == k <= Len(ls) /\ IsMalformedEvent(ls[k])
               IN  /\ delivered[c] = EventsOf(SubSeq(ls, 1, k - 1))
                   /\ malformed => DecodeFailure(ret[c].err)
                   /\ ~malformed /\ ~res[c].Body.fail => ret[c].err = NilErr

(***************************************************************************)
(* C15.  Once the scanner has returned the sentinel line, the loop is      *)
(* over: no later line is scanned, the callback has got the events of the  *)
(* lines before the sentinel and nothing else, and no line after the       *)
(* sentinel, malformed or not, gives an error: with lines after the        *)
(* sentinel ChatCompletion returns nil, nil.  (The error of a call that    *)
(* read the sentinel can only be the failed read of a body that broke off  *)
(* in a last, unterminated sentinel line.)                                 *)
(***************************************************************************)
\* The scanner's position after it has returned line j.
ScannedTo(bytes, ls, j) ==
    IF EndOfLine(ls, j) > Len(bytes) THEN Len(bytes) ELSE EndOfLine(ls, j)

C15_AfterSentinel ==
    \A c \in Calls :
        LET ls == SplitLines(res[c].Body.bytes)
        IN  \A j \in 1..Len(ls) :
                /\ Streaming(c)
                /\ ls[j] = DoneSentinel
                /\ scanner[c].start = ScannedTo(res[c].Body.bytes, ls, j)
                => /\ pc[c] \in {"deferClose", "done"}
                   /\ delivered[c] = EventsOf(SubSeq(ls, 1, j - 1))
                   /\ ret[c].resp = NilResp
                   /\ ~DecodeFailure(ret[c].err)
                   /\ j < Len(ls) \/ scanner[c].err # "read" => ret[c].err = NilErr

\* A malformed data line after the sentinel, and nil, nil.
C15_Witness ==
    \E c \in Calls :
        /\ Returned(c)
        /\ Streaming(c)
        /\ SplitLines(res[c].Body.bytes) = <<DoneSentinel, DataPrefix \o Truncated>>
        /\ ret[c] = [resp |-> NilResp, err |-> NilErr]

(***************************************************************************)
(* C16.  A stream that ends without a sentinel line (its read returns      *)
(* end-of-data, and no data line of it is malformed) is a clean            *)
(* termination: the callback got the event of every valid data line, in    *)
(* order, the last line included when no newline ends it, and              *)
(* ChatCompletion returns nil, nil as it does after a sentinel.            *)
(* The over-long line of C2 breaks this too: the loop ends at a valid data *)
(* line of MaxScanTokenSize bytes or more with a read error.               *)
(***************************************************************************)
EndsWithoutSentinel(body) ==
    LET ls == SplitLines(body.bytes)
    IN  /\ ~body.fail
        /\ \A i \in 1..Len(ls) : ls[i] # DoneSentinel /\ ~IsMalformedEvent(ls[i])

C16_EndOfData ==
    \A c \in Calls :
        Returned(c) /\ Streaming(c) /\ EndsWithoutSentinel(res[c].Body)
            => /\ delivered[c] = EventsOf(SplitLines(res[c].Body.bytes))
               /\ scanner[c].start = Len(res[c].Body.bytes)
               /\ ret[c] = [resp |-> NilResp, err |-> NilErr]

(***************************************************************************)
(* C17.  When a read of the stream fails during the loop (the connection   *)
(* is lost, the context is cancelled, a line is over-long), the call       *)
(* returns nil with the stream-reading error and never with the decode     *)
(* error, and a decode error is never returned as a read error.            *)
(* A read that fails in the middle of a data line leaves the scanner with  *)
(* the part of the line that arrived: Scan returns it as the last line,    *)
(* it does not decode, and the call returns the decode error.              *)
(***************************************************************************)
\* The scanner has met a failed read or a line over its limit.
ReadFailed(c) == scanner[c].err \in {"read", "toolong"}

C17_ReadError ==
    \A c \in Calls :
        Returned(c) /\ Streaming(c)
            => /\ ret[c].resp = NilResp
               /\ ReadFailed(c) => ReadFailure(ret[c].err)
               /\ ReadFailure(ret[c].err) => ReadFailed(c)

(***************************************************************************)
(* C18.  The callback is invoked synchronously and in order: an event is   *)
(* delivered by one turn of the loop, which then waits in the callback;    *)
(* while the callback runs nothing else is scanned, decoded, delivered or  *)
(* returned; after ChatCompletion has returned nothing is delivered; and   *)
(* a streaming call that returns a nil error has scanned the stream to     *)
(* its end or to the sentinel.                                             *)
(***************************************************************************)
\* The scanner of a call stands behind a sentinel line it returned.
StoppedAtSentinel(c) ==
    LET ls == SplitLines(res[c].Body.bytes)
    IN  \E j \in 1..Len(ls) :
            /\ ls[j] = DoneSentinel
            /\ scanner[c].start = ScannedTo(res[c].Body.bytes, ls, j)

C18_Exhausted ==
    \A c \in Calls :
        pc[c] \in {"deferClose", "done"} /\ Streaming(c) /\ ret[c].err = NilErr
            => \/ scanner[c].start = Len(res[c].Body.bytes)
               \/ StoppedAtSentinel(c)

C18_Step ==
    \A c \in Calls :
        /\ delivered'[c] # delivered[c]
             => /\ pc[c] = "scan"
                /\ pc'[c] = "onUpdate"
                /\ Len(delivered'[c]) = Len(delivered[c]) + 1
                /\ SubSeq(delivered'[c], 1, Len(delivered[c])) = delivered[c]
        /\ pc[c] = "onUpdate"
             => /\ pc'[c] \in {"onUpdate", "scan"}
                /\ scanner'[c] = scanner[c]
                /\ bodyRead'[c] = bodyRead[c]
                /\ delivered'[c] = delivered[c]
                /\ ret'[c] = ret[c]
        /\ pc[c] \in {"deferClose", "done"}
             => /\ pc'[c] \in {"deferClose", "done"}
                /\ delivered'[c] = delivered[c]
                /\ scanner'[c] = scanner[c]
                /\ ret'[c] = ret[c]

C18_Synchronous == []C18_Exhausted /\ [][C18_Step]_vars

\* The callback at work on the second event, the first one delivered and
\* returned from.
C18_Witness ==
    \E c \in Calls :
        /\ pc[c] = "onUpdate"
        /\ delivered[c] = <<Response(<<"a">>), Response(<<"b">>)>>

(***************************************************************************)
(* C19.  While the callback for an event has not returned, no byte of the  *)
(* body behind that event's line has been read from the transport.         *)
(* The loop reads through a bufio.Scanner, whose Read asks for as much as  *)
(* its buffer takes: bytes of later lines that have arrived are read       *)
(* along with the line.                                                    *)
(***************************************************************************)
C19_NoReadAhead ==
    \A c \in Calls :
        pc[c] = "onUpdate" => bodyRead[c] <= scanner[c].start

(***************************************************************************)
(* C20.  With a finite body and a callback that returns, ChatCompletion    *)
(* returns: every turn that stays in the loop takes a line from the        *)
(* scanner (an empty or ignored line too), the scanner never goes back,    *)
(* and a streaming call ends in one of the four outcomes: nil after the    *)
(* sentinel or the end of the data, the decode error, the read error.      *)
(***************************************************************************)
C20_Progress ==
    \A c \in Calls :
        /\ scanner'[c].start >= scanner[c].start
        /\ pc[c] = "scan" /\ pc'[c] \in {"scan", "onUpdate"}
             => scanner'[c].start > scanner[c].start

C20_Outcome ==
    \A c \in Calls :
        Returned(c) /\ Streaming(c)
            => \/ /\ ret[c].err = NilErr
                  /\ scanner[c].start = Len(res[c].Body.bytes) \/ StoppedAtSentinel(c)
               \/ DecodeFailure(ret[c].err)
               \/ ReadFailure(ret[c].err)

C20_Terminates ==
    /\ <>(\A c \in Calls : pc[c] \in {"unused", "done"})
    /\ [][C20_Progress]_vars
    /\ []C20_Outcome

\* A call that returned after an empty line and an ignored line.
C20_Witness ==
    \E c \in Calls :
        /\ Returned(c)
        /\ Streaming(c)
        /\ SplitLines(res[c].Body.bytes) = <<<<>>, EventField>>
        /\ scanner[c].start = Len(res[c].Body.bytes)
        /\ ret[c].err = NilErr

(***************************************************************************)
(* C21.  Two calls on one Client share no state that either changes: a     *)
(* step of one call changes nothing of the other and nothing of the        *)
(* Client; under every interleaving the callback of a call gets the events *)
(* of its own stream, in its order, and no other; a call closes the body   *)
(* of its own response only; and what a call returns is decided by its own *)
(* reply, whatever the other call meets.                                   *)
(***************************************************************************)
\* All that a call holds.
CallState(c) ==
    <<pc[c], callerReq[c], req[c], jsonData[c], httpReq[c], exchanges[c], res[c],
      bodyRead[c], closes[c], scanner[c], delivered[c], ret[c]>>

IsPrefixOf(a, b) == Len(a) <= Len(b) /\ SubSeq(b, 1, Len(a)) = a

\* The events a call's own stream has for its callback.
OwnEvents(c) ==
    LET ls == SplitLines(res[c].Body.bytes)
    IN  EventsOf(SubSeq(ls, 1, FirstEnd(ls) - 1))

C21_Own ==
    \A c \in Calls :
        /\ IsPrefixOf(delivered[c], OwnEvents(c))
        /\ \A i \in 1..Len(delivered[c]) :
               delivered[c][i] = EventOf(DataPrefix \o EventFor(c))
        /\ closes[c] > 0 => res[c].present /\ pc[c] \in {"deferClose", "done"}
        /\ Returned(c) /\ Streaming(c)
             => LET ls == SplitLines(res[c].Body.bytes)
                    k == FirstEnd(ls)
                    malformed == k <= Len(ls) /\ IsMalformedEvent(ls[k])
                IN  /\ delivered[c] = OwnEvents(c)
                    /\ ret[c].resp = NilResp
                    /\ IF malformed THEN DecodeFailure(ret[c].err)
                       ELSE IF res[c].Body.fail THEN ReadFailure(ret[c].err)
                       ELSE ret[c].err = NilErr
        /\ Returned(c) /\ SingleDocument(c)
             => ret[c] = [resp |-> EventOf(DataPrefix \o EventFor(c)), err |-> NilErr]

C21_Step ==
    /\ client' = client
    /\ \A c, d \in Calls :
          c # d /\ CallState(c)' # CallState(c) => CallState(d)' = CallState(d)

C21_Isolated == []C21_Own /\ [][C21_Step]_vars

\* Call A has returned the decode error of its stream while call B is in
\* its callback with the first event of its own.
C21_Witness ==
    /\ Returned("A")
    /\ DecodeFailure(ret["A"].err)
    /\ delivered["A"] = <<Response(<<"a">>)>>
    /\ pc["B"] = "onUpdate"
    /\ delivered["B"] = <<Response(<<"b">>)>>
    /\ IsEventsThenDone(res["B"].Body)

(***************************************************************************)
(* C22.  Only a line that is exactly data: [DONE] ends the stream cleanly. *)
(* A line with the data prefix that holds the sentinel and something more  *)
(* (data: [DONE] and a space), the sentinel in other letters, or nothing   *)
(* behind the prefix (data: ) is a data event: it does not decode, the     *)
(* loop ends at it, the callback has the events before it, and             *)
(* ChatCompletion returns nil with the decode error.                       *)
(***************************************************************************)
NearSentinels == {SentinelWithSpace, SentinelLowerCase, DataPrefix}

C22_ExactSentinel ==
    \A c \in Calls :
        LET ls == SplitLines(res[c].Body.bytes)
        IN  /\ \A j \in 1..Len(ls) :
                  /\ Streaming(c)
                  /\ ls[j] \in NearSentinels
                  /\ scanner[c].start = ScannedTo(res[c].Body.bytes, ls, j)
                  => /\ pc[c] \in {"deferClose", "done"}
                     /\ delivered[c] = EventsOf(SubSeq(ls, 1, j - 1))
                     /\ ret[c].resp = NilResp
                     /\ DecodeFailure(ret[c].err)
            /\ Returned(c) /\ Streaming(c) /\ ret[c].err = NilErr
                  => \/ scanner[c].start = Len(res[c].Body.bytes)
                     \/ StoppedAtSentinel(c)

\* An event, then the sentinel with a space behind it: one invocation and
\* the decode error.
C22_Witness ==
    \E c \in Calls :
        /\ Returned(c)
        /\ Streaming(c)
        /\ SplitLines(res[c].Body.bytes) = <<DataPrefix \o EventA, SentinelWithSpace>>
        /\ delivered[c] = <<Response(<<"a">>)>>
        /\ DecodeFailure(ret[c].err)

=============================================================================
